---- MODULE Spec2Model ----
(***************************************************************************)
(* msgspec.inspect: translation of type descriptors into Type IR nodes.    *)
(*                                                                         *)
(* Python values are modelled as follows.                                  *)
(*   - An optional value is a sequence: <<>> is None, <<v>> is the value.  *)
(*   - A type descriptor is a record with a kind field k.                  *)
(*   - IR nodes live in a heap (a sequence); a node's identity is its      *)
(*     index, and nodes refer to each other by index.                      *)
(*   - A JSON-like value is a record [t, v], t naming its Python type.     *)
(***************************************************************************)
EXTENDS Integers, Sequences, FiniteSets, TLC

VARIABLES
    pc,          \* position of the current top-level call
    types,       \* _Translator.types
    protocol,    \* _Translator.protocol
    type_hints,  \* _Translator.type_hints
    cache,       \* _Translator.cache
    stack,       \* active translate() frames, innermost last
    out,         \* nodes produced so far by run()'s generator
    heap,        \* every IR node allocated so far
    error,       \* exception raised by the current call, "" when none
    returned,    \* per finished call: its arguments, what the caller got back,
                 \* and the number of nodes allocated by then
    hintCalls,   \* per class: calls of the external get_type_hints in this run
    writes       \* per node: executions of `out.fields = ...` on it

vars == <<pc, types, protocol, type_hints, cache, stack, out, heap, error,
          returned, hintCalls, writes>>

----------------------------------------------------------------------------
(* Bounds of the model *)

MaxBatch == 2        \* longest batch of root descriptors
MaxCalls == 2        \* top-level calls in one behaviour
MaxLit == 3          \* literal members are drawn from 1..MaxLit
RecursionLimit == 9  \* interpreter recursion limit, in translate() frames

----------------------------------------------------------------------------
(* Python values *)

None == <<>>
Some(v) == <<v>>

UNSET == [py |-> "UNSET"]
_nodefault == [py |-> "nodefault"]
MISSING == [py |-> "MISSING"]
PyInt(n) == [py |-> "int", v |-> n]
PyNone == [py |-> "None"]
Callable(n) == [py |-> "callable", fn |-> n]
_Factory(n) == [py |-> "Factory", factory |-> Callable(n)]

\* Python's ordering of the strings the model compares, smallest first
StrOrder == <<"a", "b", "c", "k", "o", "p", "q", "z">>
StrIndex(s) == CHOOSE i \in 1..Len(StrOrder) : StrOrder[i] = s

LitInt(n) == [ty |-> "int", v |-> n]
LitStr(s) == [ty |-> "str", s |-> s]
LitNone == [ty |-> "NoneType"]
\* x < y on two literal members of one kind
PyLess(x, y) ==
    IF x.ty = "int" THEN x.v < y.v ELSE StrIndex(x.s) < StrIndex(y.s)

\* sorted(s) compares members without a TypeError: int with int, str with str
Orderable(s) ==
    \/ Len(s) <= 1
    \/ \A i, j \in 1..Len(s) : s[i].ty = s[j].ty /\ s[i].ty \in {"int", "str"}

\* The mutant keeps the members in declaration order.
sorted_unsorted(s) == s

RECURSIVE sorted(_)
sorted(s) ==
    IF s = <<>> THEN <<>>
    ELSE LET r == sorted(SubSeq(s, 1, Len(s) - 1))
             x == s[Len(s)]
             n == Cardinality({i \in 1..Len(r) : ~PyLess(x, r[i])})
         IN  SubSeq(r, 1, n) \o <<x>> \o SubSeq(r, n + 1, Len(r))

\* names sorted as sorted(hints.items()) sorts them
RECURSIVE SortNames(_)
SortNames(S) ==
    IF S = {} THEN <<>>
    ELSE LET m == CHOOSE x \in S : \A y \in S : StrIndex(x) <= StrIndex(y)
         IN  <<m>> \o SortNames(S \ {m})

----------------------------------------------------------------------------
(* JSON-like values and _merge_json *)

JInt(n) == [t |-> "int", i |-> n]
JStr(s) == [t |-> "str", s |-> s]
JList(s) == [t |-> "list", items |-> s]
JTuple(s) == [t |-> "tuple", items |-> s]
JDict(d) == [t |-> "dict", d |-> d]
EmptyDict == <<>>
IsSeq(x) == x.t \in {"list", "tuple"}

\* The mutant lets the later value win for every colliding key.
RECURSIVE _merge_json_overwrite(_, _)
_merge_json_overwrite(a, b) ==
    [key \in DOMAIN a \cup DOMAIN b |->
        IF key \in DOMAIN b THEN b[key] ELSE a[key]]

RECURSIVE _merge_json(_, _)
_merge_json(a, b) ==
    IF DOMAIN b # {}
    THEN [key \in DOMAIN a \cup DOMAIN b |->
            IF key \in DOMAIN b
            THEN IF key \in DOMAIN a
                 THEN IF a[key].t = "dict" /\ b[key].t = "dict"
                      THEN JDict(_merge_json(a[key].d, b[key].d))
                      ELSE IF IsSeq(a[key]) /\ IsSeq(b[key])
                           THEN JList(a[key].items \o b[key].items)
                           ELSE b[key]
                 ELSE b[key]
            ELSE a[key]]
    ELSE a

\* msgspec.to_builtins(..., str_keys=True) on a JSON-like value: tuples
\* become lists, dicts are converted value by value.
RECURSIVE _to_builtins_value(_)
_to_builtins_value(x) ==
    IF x.t = "dict" THEN JDict([key \in DOMAIN x.d |-> _to_builtins_value(x.d[key])])
    ELSE IF IsSeq(x) THEN JList([i \in 1..Len(x.items) |-> _to_builtins_value(x.items[i])])
    ELSE x
_to_builtins(d) == [key \in DOMAIN d |-> _to_builtins_value(d[key])]

----------------------------------------------------------------------------
(* Type descriptors *)

Type(n) == [k |-> "type", name |-> n]                  \* a bare type object or class
Alias(o, a) == [k |-> "alias", origin |-> o, args |-> Some(a)]   \* origin[args]
NewType(d) == [k |-> "NewType", supertype |-> d]
Annotated(d, ms) == [k |-> "Annotated", base |-> d, metadata |-> ms]
NewUnion(a) == [k |-> "UnionType", args |-> Some(a)]         \* X | Y
\* the generic alias n = o[pre..., n]: its last argument is the alias itself
CyclicAlias(n, o, pre) == [k |-> "cyclic", name |-> n, origin |-> o, pre |-> pre]
\* t.__args__ of a generic alias
ArgsOf(t) == IF t.k = "cyclic" THEN Some(t.pre \o <<t>>) ELSE t.args
EmptyTupleArg == [k |-> "emptytuple"]                  \* the () in Tuple[()]
Ellipsis == [k |-> "ellipsis"]

ConstrAttrs == {"ge", "gt", "le", "lt", "multiple_of", "pattern",
                "min_length", "max_length", "tz"}
DocAttrs == <<"title", "description", "examples">>

\* msgspec.Meta(...) with every attribute None
Meta0 == [cls |-> "Meta", ge |-> None, gt |-> None, le |-> None, lt |-> None,
          multiple_of |-> None, pattern |-> None, min_length |-> None,
          max_length |-> None, tz |-> None, title |-> None,
          description |-> None, examples |-> None,
          extra_json_schema |-> None, extra |-> None]
NotMeta == [cls |-> "str"]                             \* some other annotation

\* msgspec._utils._CONCRETE_TYPES: built-in forms -> canonical marker
_CONCRETE_TYPES ==
    [x \in {"list", "tuple", "set", "frozenset", "dict", "typing.List",
            "typing.Tuple", "typing.Set", "typing.FrozenSet", "typing.Dict"} |->
        CASE x \in {"list", "typing.List"} -> "list"
          [] x \in {"tuple", "typing.Tuple"} -> "tuple"
          [] x \in {"set", "typing.Set"} -> "set"
          [] x \in {"frozenset", "typing.FrozenSet"} -> "frozenset"
          [] OTHER -> "dict"]

\* the while loop of _origin_args_metadata
RECURSIVE StripWrappers(_, _)
StripWrappers(t, metadata) ==
    IF t.k = "NewType" THEN StripWrappers(t.supertype, metadata)
    ELSE IF t.k = "Annotated"
         THEN StripWrappers(t.base,
                  metadata \o SelectSeq(t.metadata, LAMBDA m : m.cls = "Meta"))
         ELSE [t |-> t, metadata |-> metadata]

_origin_args_metadata(typ) ==
    LET s == StripWrappers(typ, <<>>)
        t == s.t
    IN  IF t.k = "UnionType"
        THEN [t |-> "Union", args |-> t.args, metadata |-> s.metadata]
        ELSE IF t.k = "type" /\ t.name \in DOMAIN _CONCRETE_TYPES
             THEN [t |-> _CONCRETE_TYPES[t.name], args |-> None,
                   metadata |-> s.metadata]
             ELSE IF t.k \in {"alias", "cyclic"}
                  THEN [t |-> IF t.origin \in DOMAIN _CONCRETE_TYPES
                              THEN _CONCRETE_TYPES[t.origin] ELSE t.origin,
                        args |-> ArgsOf(t), metadata |-> s.metadata]
                  ELSE [t |-> t.name, args |-> None, metadata |-> s.metadata]

----------------------------------------------------------------------------
(* The classes being introspected (read-only external state) *)

\* class S(msgspec.Struct, rename=..., tag_field="kind", tag="s", kw_only=True)
\* @dataclass class D;  class N(NamedTuple);  N2 = namedtuple("N2", "p q",
\* defaults=[1]);  class T(TypedDict) with a NotRequired key;  class T2: a
\* TypedDict(total=False) of a Python without __required_keys__;
\* class Color(Enum);  class Foo: an arbitrary class.
ClassNames == {"S", "D", "N", "N2", "T", "T2", "Color", "Foo", "UnsetType"}

ClassOf(c) ==
    CASE c = "S" ->
           [meta |-> "StructMeta",
            __struct_fields__ |-> <<"me", "d", "f", "u", "w">>,
            __struct_encode_fields__ |-> <<"Me", "D", "F", "U", "W">>,
            __struct_defaults__ |-> <<PyNone, _Factory("list"), UNSET, _nodefault>>,
            __struct_tag_field__ |-> Some("kind"), __struct_tag__ |-> Some("s"),
            array_like |-> FALSE, forbid_unknown_fields |-> TRUE,
            hints |-> [me |-> Type("S"),
                       d |-> Alias("Union", <<Type("D"), Type("None")>>),
                       f |-> Alias("list", <<Type("int")>>),
                       u |-> Alias("Union", <<Type("int"), Type("UnsetType")>>),
                       w |-> Type("T")]]
      [] c = "D" ->
           [meta |-> "dataclass",
            fields |-> <<[name |-> "s", default |-> MISSING, default_factory |-> MISSING],
                         [name |-> "x", default |-> PyInt(0), default_factory |-> MISSING],
                         [name |-> "l", default |-> MISSING, default_factory |-> Callable("list")]>>,
            hints |-> [s |-> Type("S"),
                       x |-> Annotated(Type("int"), <<[Meta0 EXCEPT !.ge = Some(0)]>>),
                       l |-> Alias("list", <<Type("D")>>)]]
      [] c = "N" ->
           [meta |-> "namedtuple",
            _fields |-> <<"a", "b">>,
            _field_defaults |-> [b |-> PyNone],
            hints |-> [a |-> Type("int"), b |-> Type("N")]]
      [] c = "N2" ->
           [meta |-> "namedtuple",
            _fields |-> <<"p", "q">>,
            _field_defaults |-> [q |-> PyInt(1)],
            hints |-> EmptyDict]
      [] c = "T" ->
           [meta |-> "typeddict",
            has_required_keys |-> TRUE, __required_keys__ |-> {"k"},
            __total__ |-> TRUE,
            hints |-> [o |-> Type("str"), k |-> Type("T")]]
      [] c = "T2" ->
           [meta |-> "typeddict",
            has_required_keys |-> FALSE, __required_keys__ |-> {},
            __total__ |-> FALSE,
            hints |-> [z |-> Type("N2")]]
      [] c = "Color" -> [meta |-> "EnumMeta"]
      [] OTHER -> [meta |-> "type"]

MetaOf(t) == IF t \in ClassNames THEN ClassOf(t).meta ELSE "type"
_is_struct(t) == MetaOf(t) = "StructMeta"
_is_enum(t) == MetaOf(t) = "EnumMeta"
_is_dataclass(t) == MetaOf(t) = "dataclass"
_is_typeddict(t) == MetaOf(t) = "typeddict"
_is_namedtuple(t) == MetaOf(t) = "namedtuple"
IsObjectLike(t) ==
    _is_struct(t) \/ _is_typeddict(t) \/ _is_dataclass(t) \/ _is_namedtuple(t)

\* msgspec._utils.get_type_hints(t): declared field name -> declared type
_get_type_hints(t) == ClassOf(t).hints

----------------------------------------------------------------------------
(* translate(): merging the Meta annotations *)

NoConstrs == [a \in ConstrAttrs |-> None]
DocSet == {DocAttrs[i] : i \in 1..Len(DocAttrs)}

\* one iteration of `for meta in metadata`
MetaStep(acc, meta) ==
    LET constrs == [a \in ConstrAttrs |->
                        IF meta[a] # None THEN meta[a] ELSE acc.constrs[a]]
        set == {a \in DocSet : meta[a] # None}
        docs == [key \in DOMAIN acc.extra_json_schema \cup set |->
                    IF key \in set THEN meta[key][1]
                    ELSE acc.extra_json_schema[key]]
        ejs == IF meta.extra_json_schema # None
               THEN _merge_json(docs, _to_builtins(meta.extra_json_schema[1]))
               ELSE docs
        extra == IF meta.extra # None
                 THEN [key \in DOMAIN acc.extra \cup DOMAIN meta.extra[1] |->
                          IF key \in DOMAIN meta.extra[1]
                          THEN meta.extra[1][key] ELSE acc.extra[key]]
                 ELSE acc.extra
    IN  [constrs |-> constrs, extra_json_schema |-> ejs, extra |-> extra]

RECURSIVE MetaLoop(_, _)
MetaLoop(metadata, acc) ==
    IF metadata = <<>> THEN acc
    ELSE MetaLoop(Tail(metadata), MetaStep(acc, Head(metadata)))

MergeMeta(metadata) ==
    MetaLoop(metadata, [constrs |-> NoConstrs, extra_json_schema |-> EmptyDict,
                        extra |-> EmptyDict])

----------------------------------------------------------------------------
(* IR nodes *)

AnyType == [node |-> "AnyType"]
Plain(n) == [node |-> n]
Numeric(n, c) == [node |-> n, ge |-> c.ge, gt |-> c.gt, le |-> c.le, lt |-> c.lt,
                  multiple_of |-> c.multiple_of]
\* The mutant builds the node with the constraints dropped.
IntType_unconstrained(c) == Numeric("IntType", NoConstrs)
IntType(c) == Numeric("IntType", c)
FloatType(c) == Numeric("FloatType", c)
StrType(c) ==
    [node |-> "StrType", min_length |-> c.min_length,
     max_length |-> c.max_length, pattern |-> c.pattern]
Sized(n, c) == [node |-> n, min_length |-> c.min_length, max_length |-> c.max_length]
Zoned(n, c) == [node |-> n, tz |-> c.tz]
Collection(n, item, c) ==
    [node |-> n, item_type |-> item, min_length |-> c.min_length,
     max_length |-> c.max_length]
TupleType(items) == [node |-> "TupleType", item_types |-> items]
DictType(key, val, c) ==
    [node |-> "DictType", key_type |-> key, value_type |-> val,
     min_length |-> c.min_length, max_length |-> c.max_length]
UnionType(ts) == [node |-> "UnionType", types |-> ts]
LiteralType(values) == [node |-> "LiteralType", values |-> values]
EnumType(cls) == [node |-> "EnumType", cls |-> cls]
CustomType(cls) == [node |-> "CustomType", cls |-> cls]
Metadata(type, ejs, extra) ==
    [node |-> "Metadata", type |-> type, extra_json_schema |-> ejs, extra |-> extra]
Field(name, encode_name, type, required, default, default_factory) ==
    [name |-> name, encode_name |-> encode_name, type |-> type,
     required |-> required, default |-> default,
     default_factory |-> default_factory]
ObjectType(n, cls) == [node |-> n, cls |-> cls, fields |-> <<>>]
StructType(cls) ==
    [node |-> "StructType", cls |-> cls, fields |-> <<>>,
     tag_field |-> ClassOf(cls).__struct_tag_field__,
     tag |-> ClassOf(cls).__struct_tag__,
     array_like |-> ClassOf(cls).array_like,
     forbid_unknown_fields |-> ClassOf(cls).forbid_unknown_fields]

\* UnionType.includes_none, on node n of heap h
includes_none(h, n) == \E i \in 1..Len(h[n].types) : h[h[n].types[i]].node = "NoneType"

----------------------------------------------------------------------------
(* _translate_inner *)

Truthy(args) == args # None /\ args[1] # <<>>

\* the tuple arm's `if args == ((),): args = ()`
TupleArgs(args) == IF args = Some(<<EmptyTupleArg>>) THEN Some(<<>>) ELSE args
IsVarTuple(a) == a # None /\ Len(a[1]) = 2 /\ a[1][2] = Ellipsis

\* the contained types the arm of t translates, in the order it translates them
Contained(t, args) ==
    CASE t \in {"list", "set", "frozenset"} ->
           IF Truthy(args) THEN <<args[1][1]>> ELSE <<>>
      [] t = "tuple" ->
           LET a == TupleArgs(args)
           IN  IF a = None THEN <<>>
               ELSE IF IsVarTuple(a) THEN <<a[1][1]>> ELSE a[1]
      [] t = "dict" -> IF Truthy(args) THEN <<args[1][1], args[1][2]>> ELSE <<>>
      [] t = "Union" -> args[1]
      [] OTHER -> <<>>

\* The nodes a non-object arm allocates once its contained types are translated
\* to the nodes kids; the last one is the arm's result. base is the number of
\* nodes allocated before.
ArmNodes(t, args, c, kids, base) ==
    CASE t = "Any" -> <<AnyType>>
      [] t \in {"None", "NoneType"} -> <<Plain("NoneType")>>
      [] t = "bool" -> <<Plain("BoolType")>>
      [] t = "int" -> <<IntType(c)>>
      [] t = "float" -> <<FloatType(c)>>
      [] t = "str" -> <<StrType(c)>>
      [] t = "bytes" -> <<Sized("BytesType", c)>>
      [] t = "bytearray" -> <<Sized("ByteArrayType", c)>>
      [] t = "datetime" -> <<Zoned("DateTimeType", c)>>
      [] t = "time" -> <<Zoned("TimeType", c)>>
      [] t = "date" -> <<Plain("DateType")>>
      [] t = "UUID" -> <<Plain("UUIDType")>>
      [] t = "Decimal" -> <<Plain("DecimalType")>>
      [] t = "Raw" -> <<Plain("RawType")>>
      [] t = "Ext" -> <<Plain("ExtType")>>
      [] t \in {"list", "set", "frozenset"} ->
           LET n == CASE t = "list" -> "ListType" [] t = "set" -> "SetType"
                      [] OTHER -> "FrozenSetType"
           IN  IF Truthy(args) THEN <<Collection(n, kids[1], c)>>
               ELSE <<AnyType, Collection(n, base + 1, c)>>
      [] t = "tuple" ->
           LET a == TupleArgs(args)
           IN  IF a = None THEN <<AnyType, Collection("VarTupleType", base + 1, c)>>
               ELSE IF IsVarTuple(a) THEN <<Collection("VarTupleType", kids[1], c)>>
               ELSE <<TupleType(kids)>>
      [] t = "dict" ->
           IF Truthy(args) THEN <<DictType(kids[1], kids[2], c)>>
           ELSE <<AnyType, AnyType, DictType(base + 1, base + 2, c)>>
      [] t = "Union" -> <<UnionType(kids)>>
      [] t = "Literal" -> <<LiteralType(sorted(args[1]))>>
      [] _is_enum(t) -> <<EnumType(t)>>
      [] OTHER -> <<CustomType(t)>>

\* the placeholder an object arm registers in the cache
Placeholder(t) ==
    CASE _is_struct(t) -> StructType(t)
      [] _is_typeddict(t) -> ObjectType("TypedDictType", t)
      [] _is_dataclass(t) -> ObjectType("DataclassType", t)
      [] OTHER -> ObjectType("NamedTupleType", t)

\* The mutant takes a default factory for no default at all.
StructField_bad(name, encode_name, default_obj) ==
    IF default_obj = _nodefault \/ default_obj.py = "Factory"
    THEN [name |-> name, encode_name |-> encode_name, required |-> TRUE,
          default |-> UNSET, default_factory |-> UNSET]
    ELSE [name |-> name, encode_name |-> encode_name, required |-> FALSE,
          default |-> default_obj, default_factory |-> UNSET]

\* the struct arm's if/elif/else on default_obj
StructField(name, encode_name, default_obj) ==
    IF default_obj = _nodefault
    THEN [name |-> name, encode_name |-> encode_name, required |-> TRUE,
          default |-> UNSET, default_factory |-> UNSET]
    ELSE IF default_obj.py = "Factory"
         THEN [name |-> name, encode_name |-> encode_name, required |-> FALSE,
               default |-> UNSET, default_factory |-> default_obj.factory]
         ELSE [name |-> name, encode_name |-> encode_name, required |-> FALSE,
               default |-> default_obj, default_factory |-> UNSET]

\* Per field of object-like class t, in the order the arm builds them: the
\* declared type it translates (hint) and the Field's other attributes.
FieldPlan(t, hints) ==
    LET cls == ClassOf(t) IN
    CASE _is_struct(t) ->
           LET npos == Len(cls.__struct_fields__) - Len(cls.__struct_defaults__)
               defaults == [i \in 1..npos |-> _nodefault] \o cls.__struct_defaults__
           IN  [i \in 1..Len(cls.__struct_fields__) |->
                   [hint |-> hints[cls.__struct_fields__[i]],
                    field |-> StructField(cls.__struct_fields__[i],
                                          cls.__struct_encode_fields__[i],
                                          defaults[i])]]
      [] _is_typeddict(t) ->
           LET required == IF cls.has_required_keys THEN cls.__required_keys__
                           ELSE IF cls.__total__ THEN DOMAIN hints ELSE {}
               names == SortNames(DOMAIN hints)
           IN  [i \in 1..Len(names) |->
                   [hint |-> hints[names[i]],
                    field |-> [name |-> names[i], encode_name |-> names[i],
                               required |-> names[i] \in required,
                               default |-> UNSET, default_factory |-> UNSET]]]
      [] _is_dataclass(t) ->
           [i \in 1..Len(cls.fields) |->
               LET f == cls.fields[i] IN
               [hint |-> hints[f.name],
                field |-> [name |-> f.name, encode_name |-> f.name,
                           required |-> f.default = MISSING /\ f.default_factory = MISSING,
                           default |-> IF f.default = MISSING THEN UNSET ELSE f.default,
                           default_factory |-> IF f.default_factory = MISSING
                                               THEN UNSET ELSE f.default_factory]]]
      [] OTHER ->
           [i \in 1..Len(cls._fields) |->
               LET name == cls._fields[i] IN
               [hint |-> IF name \in DOMAIN hints THEN hints[name] ELSE Type("Any"),
                field |-> [name |-> name, encode_name |-> name,
                           required |-> name \notin DOMAIN cls._field_defaults,
                           default |-> IF name \in DOMAIN cls._field_defaults
                                       THEN cls._field_defaults[name] ELSE UNSET,
                           default_factory |-> UNSET]]]

\* the Field tuple assigned to out.fields, kids being the translated hints
BuildFields(plan, kids) ==
    [i \in 1..Len(plan) |->
        Field(plan[i].field.name, plan[i].field.encode_name, kids[i],
              plan[i].field.required, plan[i].field.default,
              plan[i].field.default_factory)]

----------------------------------------------------------------------------
(* The codec-construction gate: Decoder(Tuple[types]) *)

\* whether a dict key type has a string representation
StrKeyed(d) ==
    LET o == _origin_args_metadata(d)
    IN  o.t \in {"str", "int", "float", "bytes", "UUID", "Decimal", "datetime",
                 "date", "time", "Literal", "Any"} \/ _is_enum(o.t)

\* whether descriptor d holds a type that protocol p cannot realise; seen are
\* the object-like classes and the cyclic aliases already entered
RECURSIVE Unsupported(_, _, _)
Unsupported(d, p, seen) ==
    LET o == _origin_args_metadata(d)
        s == StripWrappers(d, <<>>).t
        inner == IF s.k = "cyclic" /\ s.name \in seen THEN <<>>
                 ELSE Contained(o.t, o.args)
        entered == IF s.k = "cyclic" THEN seen \cup {s.name} ELSE seen
    IN  \/ o.t = "dict" /\ Truthy(o.args) /\ p = Some("json") /\ ~StrKeyed(o.args[1][1])
        \/ \E i \in 1..Len(inner) : Unsupported(inner[i], p, entered)
        \/ /\ IsObjectLike(o.t)
           /\ o.t \notin seen
           /\ \E name \in DOMAIN _get_type_hints(o.t) :
                  Unsupported(_get_type_hints(o.t)[name], p, seen \cup {o.t})

DecoderAccepts(ts, p) == \A i \in 1..Len(ts) : ~Unsupported(ts[i], p, {})

----------------------------------------------------------------------------
(* The descriptors and calls the model draws from *)

IntT == Type("int")
StrT == Type("str")
NoneT == Type("None")
Title(s) == [Meta0 EXCEPT !.title = Some(JStr(s))]

Scalars ==
    {Type(n) : n \in {"Any", "None", "NoneType", "bool", "int", "float", "str",
                      "bytes", "bytearray", "datetime", "time", "date", "UUID",
                      "Decimal", "Raw", "Ext"}}

Containers ==
    {Type("list"), Type("tuple"), Type("dict"), Type("set"), Type("frozenset"),
     Type("typing.List"), Type("typing.Dict"),
     Alias("list", <<IntT>>), Alias("set", <<StrT>>), Alias("frozenset", <<IntT>>),
     Alias("tuple", <<IntT, Ellipsis>>), Alias("tuple", <<IntT, StrT>>),
     Alias("tuple", <<EmptyTupleArg>>), Alias("tuple", <<>>),
     Alias("dict", <<StrT, IntT>>),
     Alias("dict", <<Alias("tuple", <<IntT, IntT>>), StrT>>),
     Alias("list", <<Alias("dict", <<Type("bool"), Alias("list", <<StrT>>)>>)>>)}

Unions ==
    {Alias("Union", <<IntT, NoneT>>), Alias("Union", <<NoneT, StrT>>),
     Alias("Union", <<IntT, StrT>>), Alias("Union", <<StrT, IntT>>),
     NewUnion(<<StrT, NoneT>>), NewUnion(<<IntT, Type("bytes")>>),
     Alias("Union", <<IntT, Annotated(NoneT, <<[Meta0 EXCEPT !.ge = Some(1)]>>)>>),
     Alias("Union", <<IntT, Annotated(NoneT, <<Title("n")>>)>>),
     Alias("Union", <<Annotated(IntT, <<Title("i")>>), StrT>>),
     Alias("Union", <<Type("S"), NoneT>>)}

\* Meta annotations carrying numeric bounds
NumericMetas ==
    {[Meta0 EXCEPT !.ge = Some(1)], [Meta0 EXCEPT !.gt = Some(2)],
     [Meta0 EXCEPT !.le = Some(3)], [Meta0 EXCEPT !.lt = Some(4)],
     [Meta0 EXCEPT !.multiple_of = Some(5)],
     [Meta0 EXCEPT !.ge = Some(1), !.gt = Some(2), !.le = Some(3),
                   !.lt = Some(4), !.multiple_of = Some(5)],
     [Meta0 EXCEPT !.ge = Some(0), !.min_length = Some(1), !.max_length = Some(2),
                   !.pattern = Some("a"), !.tz = Some(TRUE)]}

Constrained ==
    {Annotated(b, <<m>>) :
        b \in {IntT, StrT, Type("float"), Type("bytes"), Type("datetime"),
               Alias("list", <<IntT>>)},
        m \in NumericMetas}
    \cup {Annotated(b, <<[Meta0 EXCEPT !.ge = Some(1), !.lt = Some(9)], NotMeta,
                         [Meta0 EXCEPT !.ge = Some(2), !.le = Some(3)]>>) :
            b \in {IntT, StrT}}
    \cup {NewType(Annotated(IntT, <<[Meta0 EXCEPT !.le = Some(3)]>>)),
          Annotated(NewType(IntT), <<[Meta0 EXCEPT !.gt = Some(2)]>>)}

\* every sequence of distinct elements of S
RECURSIVE Arrangements(_)
Arrangements(S) ==
    {<<>>} \cup UNION {{<<x>> \o r : r \in Arrangements(S \ {x})} : x \in S}

Literals ==
    {Alias("Literal", [i \in 1..Len(a) |-> LitInt(a[i])]) :
        a \in Arrangements(1..MaxLit) \ {<<>>}}
    \cup {Alias("Literal", [i \in 1..Len(a) |-> LitStr(a[i])]) :
            a \in Arrangements({"a", "b", "c"}) \ {<<>>}}

ClassRoots ==
    {Type(c) : c \in ClassNames}
    \cup {NewType(Type("S")), Annotated(Type("S"), <<Title("t")>>),
          Alias("list", <<Type("S")>>),
          Annotated(Type("D"), <<[Meta0 EXCEPT !.extra = Some([a |-> JInt(1)])]>>),
          Alias("dict", <<Type("Color"), Type("T")>>),
          Alias("dict", <<Type("N2"), Type("Foo")>>)}

\* values of an extra-schema dict
SchemaValues ==
    {JInt(1), JStr("x"), JList(<<JInt(1)>>), JTuple(<<JInt(2), JInt(3)>>),
     JDict([c |-> JInt(1)]),
     JDict([c |-> JInt(2), d |-> JList(<<JInt(4)>>)]),
     JDict([c |-> JDict([e |-> JTuple(<<JInt(5)>>)]), d |-> JTuple(<<JInt(6)>>)])}

\* extra-schema dicts over the keys a and b
SchemaDicts ==
    {EmptyDict} \cup {[a |-> x] : x \in SchemaValues}
    \cup {[b |-> JInt(7)]} \cup {[a |-> x, b |-> JInt(8)] : x \in SchemaValues}

Schema(d) == [Meta0 EXCEPT !.extra_json_schema = Some(d)]

Documented ==
    {Annotated(IntT, <<Schema(x), Schema(y)>>) : x, y \in SchemaDicts}

\* Literals of a member that is neither int nor str, and of members of two kinds
MixedLiterals ==
    {Alias("Literal", a) :
        a \in {<<LitNone>>, <<LitInt(1), LitStr("a")>>, <<LitStr("a"), LitInt(1)>>,
               <<LitInt(1), LitNone>>, <<LitNone, LitStr("a")>>,
               <<LitInt(2), LitInt(1), LitStr("a")>>}}

\* Meta annotations that document: title, description, examples, and
\* extra-schema dicts under the same keys
DocMetas ==
    {[Meta0 EXCEPT !.examples = Some(JList(<<JInt(1)>>))],
     [Meta0 EXCEPT !.examples = Some(JList(<<JInt(2)>>))],
     [Meta0 EXCEPT !.title = Some(JStr("a"))],
     [Meta0 EXCEPT !.title = Some(JStr("b")), !.description = Some(JStr("c"))],
     [Meta0 EXCEPT !.extra_json_schema = Some([examples |-> JTuple(<<JInt(3)>>)])],
     [Meta0 EXCEPT !.examples = Some(JList(<<JInt(1)>>)),
                   !.extra_json_schema = Some([examples |-> JList(<<JInt(2)>>),
                                               title |-> JStr("z")])],
     [Meta0 EXCEPT !.extra_json_schema = Some([title |-> JDict([c |-> JInt(1)])])]}

Described == {Annotated(StrT, <<x, y>>) : x, y \in DocMetas}

\* annotations with a free-form extra payload: empty, alone, repeated, next to
\* a title, and spread over nested wrappers
Extras ==
    {Annotated(IntT, <<[Meta0 EXCEPT !.extra = Some(EmptyDict)]>>),
     Annotated(IntT, <<[Meta0 EXCEPT !.extra = Some([a |-> JInt(1)])],
                       [Meta0 EXCEPT !.extra = Some([a |-> JInt(2), b |-> JInt(3)])]>>),
     Annotated(IntT, <<[Meta0 EXCEPT !.title = Some(JStr("a")),
                                     !.extra = Some([a |-> JInt(1)])]>>),
     Annotated(IntT, <<[Meta0 EXCEPT !.extra_json_schema = Some(EmptyDict),
                                     !.extra = Some([b |-> JInt(1)])]>>),
     Annotated(NewType(Annotated(IntT, <<Title("i")>>)),
               <<[Meta0 EXCEPT !.extra = Some([a |-> JInt(1)])]>>),
     Alias("list", <<Annotated(Type("S"), <<[Meta0 EXCEPT !.extra = Some([a |-> JInt(1)])]>>)>>)}

\* generic aliases that hold themselves: L = List[L], M = Dict[str, M],
\* P = Tuple[int, P], U = Union[int, U]
CyclicAliases ==
    {CyclicAlias("L", "list", <<>>), CyclicAlias("M", "dict", <<StrT>>),
     CyclicAlias("P", "tuple", <<IntT>>), CyclicAlias("U", "Union", <<IntT>>)}

RootDescs == Scalars \cup Containers \cup Unions \cup Constrained \cup Literals
             \cup MixedLiterals \cup CyclicAliases \cup Described
             \cup Extras
             \cup ClassRoots \cup Documented

\* the descriptors that batches of several roots are made of
BatchDescs ==
    {IntT, Type("S"), Type("D"), Alias("list", <<Type("T")>>),
     Annotated(Type("S"), <<Title("t")>>),
     Alias("dict", <<Alias("tuple", <<IntT, IntT>>), StrT>>)}

RECURSIVE SeqsOf(_, _)
SeqsOf(S, n) ==
    IF n = 0 THEN {<<>>}
    ELSE {Append(s, x) : s \in SeqsOf(S, n - 1), x \in S}

Batches ==
    {<<>>} \cup {<<d>> : d \in RootDescs}
    \cup UNION {SeqsOf(BatchDescs, n) : n \in 2..MaxBatch}

Protocols == {None, Some("msgpack"), Some("json"), Some("yaml")}

----------------------------------------------------------------------------
(* The state machine *)

NoFunction == [x \in {} |-> 0]
NoHintCalls == [c \in ClassNames |-> 0]

Init ==
    /\ pc = "idle"
    /\ types = <<>>
    /\ protocol = None
    /\ type_hints = NoFunction
    /\ cache = NoFunction
    /\ stack = <<>>
    /\ out = <<>>
    /\ heap = <<>>
    /\ error = ""
    /\ returned = <<>>
    /\ hintCalls = NoHintCalls
    /\ writes = <<>>

\* The mutant keeps the caches of the translator before.
NewTranslator_shared(ts, p) ==
    /\ types' = ts
    /\ protocol' = p
    /\ stack' = <<>>
    /\ out' = <<>>
    /\ error' = ""
    /\ pc' = "run"
    /\ UNCHANGED <<heap, returned, writes, type_hints, cache, hintCalls>>

\* _Translator.__init__
NewTranslator(ts, p) ==
    /\ types' = ts
    /\ protocol' = p
    /\ type_hints' = NoFunction
    /\ cache' = NoFunction
    /\ stack' = <<>>
    /\ out' = <<>>
    /\ error' = ""
    /\ hintCalls' = NoHintCalls
    /\ pc' = "run"
    /\ UNCHANGED <<heap, returned, writes>>

\* the caller invokes multi_type_info(ts, protocol=p)
multi_type_info ==
    /\ pc = "idle"
    /\ \E ts \in Batches, p \in Protocols : NewTranslator(ts, p)

\* the caller then invokes type_info on one root of its batch, same protocol
type_info ==
    /\ pc \in {"done", "raised"}
    /\ Len(returned) < MaxCalls
    /\ \E i \in 1..Len(returned[1].types) :
           NewTranslator(<<returned[1].types[i]>>, returned[1].protocol)

\* an exception leaves the call: nothing is returned
Raise(e) ==
    /\ pc' = "raised"
    /\ error' = e
    /\ stack' = <<>>
    /\ returned' = Append(returned, [types |-> types, protocol |-> protocol,
                                     result |-> None, error |-> e,
                                     nodes |-> Len(heap)])
    /\ UNCHANGED <<types, protocol, type_hints, cache, out, heap, hintCalls, writes>>

\* The mutant takes the msgpack Decoder for every other protocol value.
run_protocol_lenient ==
    /\ pc = "run"
    /\ pc' = "gate"
    /\ UNCHANGED <<types, protocol, type_hints, cache, stack, out, heap,
                   error, returned, hintCalls, writes>>

\* run(): the choice of the Decoder class
run_protocol ==
    /\ pc = "run"
    /\ IF protocol \in {None, Some("msgpack"), Some("json")}
       THEN /\ pc' = "gate"
            /\ UNCHANGED <<types, protocol, type_hints, cache, stack, out, heap,
                           error, returned, hintCalls, writes>>
       ELSE Raise("ValueError")

\* The mutant goes on to translate whatever the Decoder says.
run_decoder_ignored ==
    /\ pc = "gate"
    /\ pc' = "translate"
    /\ UNCHANGED <<types, protocol, type_hints, cache, stack, out, heap,
                   error, returned, hintCalls, writes>>

\* run(): Decoder(Tuple[self.types])
run_decoder ==
    /\ pc = "gate"
    /\ IF DecoderAccepts(types, protocol)
       THEN /\ pc' = "translate"
            /\ UNCHANGED <<types, protocol, type_hints, cache, stack, out, heap,
                           error, returned, hintCalls, writes>>
       ELSE Raise("TypeError")

Frame(typ) ==
    [typ |-> typ, phase |-> "enter", t |-> "", args |-> None,
     constrs |-> NoConstrs, extra_json_schema |-> EmptyDict, extra |-> EmptyDict,
     plan |-> <<>>, todo |-> <<>>, kids |-> <<>>, out |-> 0]

Top == stack[Len(stack)]
SetTop(f) == [stack EXCEPT ![Len(stack)] = f]

\* The mutant walks the roots from the last to the first.
run_translate_reversed ==
    /\ pc = "translate"
    /\ stack = <<>>
    /\ Len(out) < Len(types)
    /\ stack' = <<Frame(types[Len(types) - Len(out)])>>
    /\ UNCHANGED <<pc, types, protocol, type_hints, cache, out, heap, error,
                   returned, hintCalls, writes>>

\* run(): the generator calls translate on the next root
run_translate ==
    /\ pc = "translate"
    /\ stack = <<>>
    /\ Len(out) < Len(types)
    /\ stack' = <<Frame(types[Len(out) + 1])>>
    /\ UNCHANGED <<pc, types, protocol, type_hints, cache, out, heap, error,
                   returned, hintCalls, writes>>

\* run(): the tuple of nodes is returned
run_return ==
    /\ pc = "translate"
    /\ stack = <<>>
    /\ Len(out) = Len(types)
    /\ pc' = "done"
    /\ returned' = Append(returned, [types |-> types, protocol |-> protocol,
                                     result |-> Some(out), error |-> "",
                                     nodes |-> Len(heap)])
    /\ UNCHANGED <<types, protocol, type_hints, cache, stack, out, heap, error,
                   hintCalls, writes>>

\* translate(): the frame once the descriptor is normalised and its Meta
\* annotations are merged
Entered(f) ==
    LET o == _origin_args_metadata(f.typ)
        m == MergeMeta(o.metadata)
    IN  [f EXCEPT !.t = o.t, !.args = o.args, !.constrs = m.constrs,
                  !.extra_json_schema = m.extra_json_schema, !.extra = m.extra]

InFrame(phase) == pc = "translate" /\ stack # <<>> /\ Top.phase = phase

Zeros(n) == [i \in 1..n |-> 0]

\* an arm that translates no contained type: the node is built at once
\* (the Literal arm's sorted(args) raises TypeError on members it cannot compare)
translate_leaf ==
    /\ InFrame("enter")
    /\ LET f == Entered(Top)
           new == ArmNodes(f.t, f.args, f.constrs, <<>>, Len(heap))
       IN  /\ ~IsObjectLike(f.t)
           /\ Contained(f.t, f.args) = <<>>
           /\ IF f.t = "Literal" /\ ~Orderable(f.args[1])
              THEN Raise("TypeError")
              ELSE /\ heap' = heap \o new
                   /\ writes' = writes \o Zeros(Len(new))
                   /\ stack' = SetTop([f EXCEPT !.phase = "wrap",
                                                !.out = Len(heap) + Len(new)])
                   /\ UNCHANGED <<pc, types, protocol, type_hints, cache, out,
                                  error, returned, hintCalls>>

\* an arm that first translates its contained types
translate_container ==
    /\ InFrame("enter")
    /\ LET f == Entered(Top)
       IN  /\ ~IsObjectLike(f.t)
           /\ Contained(f.t, f.args) # <<>>
           /\ stack' = SetTop([f EXCEPT !.phase = "kids",
                                        !.todo = Contained(f.t, f.args)])
    /\ UNCHANGED <<pc, types, protocol, type_hints, cache, out, heap, error,
                   returned, hintCalls, writes>>

\* The mutant never finds a class in the cache.
CacheHit_never(t) == FALSE
\* `t in self.cache`
CacheHit(t) == t \in DOMAIN cache

\* an object arm: `if t in self.cache: return self.cache[t]`
translate_cached ==
    /\ InFrame("enter")
    /\ LET f == Entered(Top)
       IN  /\ IsObjectLike(f.t)
           /\ CacheHit(f.t)
           /\ stack' = SetTop([f EXCEPT !.phase = "wrap", !.out = cache[f.t]])
    /\ UNCHANGED <<pc, types, protocol, type_hints, cache, out, heap, error,
                   returned, hintCalls, writes>>

\* The mutant creates the placeholder and leaves it out of the cache.
translate_object_unregistered ==
    /\ InFrame("enter")
    /\ LET f == Entered(Top)
           id == Len(heap) + 1
           known == f.t \in DOMAIN type_hints
           hints == IF known THEN type_hints[f.t] ELSE _get_type_hints(f.t)
           plan == FieldPlan(f.t, hints)
       IN  /\ IsObjectLike(f.t)
           /\ ~CacheHit(f.t)
           /\ heap' = Append(heap, Placeholder(f.t))
           /\ writes' = Append(writes, 0)
           /\ type_hints' = IF known THEN type_hints ELSE (f.t :> hints) @@ type_hints
           /\ hintCalls' = IF known THEN hintCalls
                           ELSE [hintCalls EXCEPT ![f.t] = @ + 1]
           /\ stack' = SetTop([f EXCEPT !.phase = "kids", !.out = id, !.plan = plan,
                                        !.todo = [i \in 1..Len(plan) |-> plan[i].hint]])
    /\ UNCHANGED <<pc, types, protocol, cache, out, error, returned>>

\* an object arm on a class not yet in the cache: the placeholder is created
\* and registered, and the class's type hints are resolved
translate_object ==
    /\ InFrame("enter")
    /\ LET f == Entered(Top)
           id == Len(heap) + 1
           known == f.t \in DOMAIN type_hints
           hints == IF known THEN type_hints[f.t] ELSE _get_type_hints(f.t)
           plan == FieldPlan(f.t, hints)
       IN  /\ IsObjectLike(f.t)
           /\ ~CacheHit(f.t)
           /\ heap' = Append(heap, Placeholder(f.t))
           /\ writes' = Append(writes, 0)
           /\ cache' = (f.t :> id) @@ cache
           /\ type_hints' = IF known THEN type_hints ELSE (f.t :> hints) @@ type_hints
           /\ hintCalls' = IF known THEN hintCalls
                           ELSE [hintCalls EXCEPT ![f.t] = @ + 1]
           /\ stack' = SetTop([f EXCEPT !.phase = "kids", !.out = id, !.plan = plan,
                                        !.todo = [i \in 1..Len(plan) |-> plan[i].hint]])
    /\ UNCHANGED <<pc, types, protocol, out, error, returned>>

\* the recursive call self.translate(...) on the next contained type
translate_descend ==
    /\ InFrame("kids")
    /\ Top.todo # <<>>
    /\ IF Len(stack) >= RecursionLimit
       THEN Raise("RecursionError")
       ELSE /\ stack' = Append(stack, Frame(Head(Top.todo)))
            /\ UNCHANGED <<pc, types, protocol, type_hints, cache, out, heap,
                           error, returned, hintCalls, writes>>

\* a container arm builds its node from the translated contained types
translate_build ==
    /\ InFrame("kids")
    /\ Top.todo = <<>>
    /\ ~IsObjectLike(Top.t)
    /\ LET f == Top
           new == ArmNodes(f.t, f.args, f.constrs, f.kids, Len(heap))
       IN  /\ heap' = heap \o new
           /\ writes' = writes \o Zeros(Len(new))
           /\ stack' = SetTop([f EXCEPT !.phase = "wrap", !.out = Len(heap) + Len(new)])
    /\ UNCHANGED <<pc, types, protocol, type_hints, cache, out, error, returned,
                   hintCalls>>

\* an object arm: `out.fields = tuple(...)`
translate_fields ==
    /\ InFrame("kids")
    /\ Top.todo = <<>>
    /\ IsObjectLike(Top.t)
    /\ heap' = [heap EXCEPT ![Top.out].fields = BuildFields(Top.plan, Top.kids)]
    /\ writes' = [writes EXCEPT ![Top.out] = @ + 1]
    /\ stack' = SetTop([Top EXCEPT !.phase = "wrap"])
    /\ UNCHANGED <<pc, types, protocol, type_hints, cache, out, error, returned,
                   hintCalls>>

\* The mutant wraps for the extra-schema payload only.
Wraps_schema_only(f) == f.extra_json_schema # EmptyDict
\* `if extra_json_schema or extra`
Wraps(f) == f.extra_json_schema # EmptyDict \/ f.extra # EmptyDict
OrNone(d) == IF d = EmptyDict THEN None ELSE Some(d)

\* translate() returns: the node, wrapped in Metadata when there is extra
\* metadata, goes to the calling arm or to run()'s generator
translate_return ==
    /\ InFrame("wrap")
    /\ LET f == Top
           id == IF Wraps(f) THEN Len(heap) + 1 ELSE f.out
       IN  /\ heap' = IF Wraps(f)
                      THEN Append(heap, Metadata(f.out, OrNone(f.extra_json_schema),
                                                 OrNone(f.extra)))
                      ELSE heap
           /\ writes' = IF Wraps(f) THEN Append(writes, 0) ELSE writes
           /\ IF Len(stack) = 1
              THEN /\ out' = Append(out, id)
                   /\ stack' = <<>>
              ELSE LET caller == stack[Len(stack) - 1]
                   IN  /\ stack' = [SubSeq(stack, 1, Len(stack) - 1)
                                       EXCEPT ![Len(stack) - 1] =
                                           [caller EXCEPT !.kids = Append(@, id),
                                                          !.todo = Tail(@)]]
                       /\ out' = out
    /\ UNCHANGED <<pc, types, protocol, type_hints, cache, error, returned,
                   hintCalls>>

Next ==
    \/ multi_type_info
    \/ type_info
    \/ run_protocol
    \/ run_decoder
    \/ run_translate
    \/ run_return
    \/ translate_leaf
    \/ translate_container
    \/ translate_cached
    \/ translate_object
    \/ translate_descend
    \/ translate_build
    \/ translate_fields
    \/ translate_return

Spec == Init /\ [][Next]_vars

----------------------------------------------------------------------------
(* Vocabulary of the properties *)

ValidProtocol(p) == p \in {None, Some("msgpack"), Some("json")}
Running == pc \in {"run", "gate", "translate"}
\* nodes allocated before the current call
Base == IF Running
        THEN (IF returned = <<>> THEN 0 ELSE returned[Len(returned)].nodes)
        ELSE (IF Len(returned) <= 1 THEN 0 ELSE returned[Len(returned) - 1].nodes)
\* nodes allocated before finished call k
BaseOf(k) == IF k = 1 THEN 0 ELSE returned[k - 1].nodes
Finished == 1..Len(returned)
\* finished call k returned nodes
Succeeded(k) == returned[k].error = "" /\ returned[k].result # None
ResultOf(k) == returned[k].result[1]
ObjectNodes == {"StructType", "TypedDictType", "DataclassType", "NamedTupleType"}
IsLiteral(d) == d.k = "alias" /\ d.origin = "Literal"
IsCyclic(d) == d.k = "cyclic"
\* no root of ts is a Literal whose members sorted() cannot compare, or an
\* alias that holds itself
Sortable(ts) ==
    \A i \in 1..Len(ts) :
        /\ IsLiteral(ts[i]) => Orderable(ts[i].args[1])
        /\ ~IsCyclic(ts[i])

\* The shape of node n of heap h: the node with every reference replaced by the
\* shape of the node referred to; a reference to a node on the path from the
\* root is replaced by its distance up the path.
RECURSIVE Shape(_, _, _)
Shape(h, n, path) ==
    IF \E i \in 1..Len(path) : path[i] = n
    THEN [up |-> Len(path) + 1 - (CHOOSE i \in 1..Len(path) : path[i] = n)]
    ELSE LET x == h[n]
             p == Append(path, n)
         IN  CASE x.node \in {"ListType", "SetType", "FrozenSetType", "VarTupleType"} ->
                    [x EXCEPT !.item_type = Shape(h, x.item_type, p)]
               [] x.node = "TupleType" ->
                    [x EXCEPT !.item_types =
                        [i \in 1..Len(x.item_types) |-> Shape(h, x.item_types[i], p)]]
               [] x.node = "DictType" ->
                    [x EXCEPT !.key_type = Shape(h, x.key_type, p),
                              !.value_type = Shape(h, x.value_type, p)]
               [] x.node = "UnionType" ->
                    [x EXCEPT !.types = [i \in 1..Len(x.types) |-> Shape(h, x.types[i], p)]]
               [] x.node = "Metadata" -> [x EXCEPT !.type = Shape(h, x.type, p)]
               [] x.node \in ObjectNodes ->
                    [x EXCEPT !.fields =
                        [i \in 1..Len(x.fields) |->
                            [x.fields[i] EXCEPT !.type = Shape(h, x.fields[i].type, p)]]]
               [] OTHER -> x

----------------------------------------------------------------------------
(* C1 *)

GateFails(ts, p) == ValidProtocol(p) /\ ~DecoderAccepts(ts, p)

\* C1: when the codec-construction gate fails for a batch, the call raises the
\* gate's error and returns no node for any root, and up to the failure no root
\* has been translated: no frame was entered, no node allocated, nothing cached
\* and no type hints resolved.
C1_GateFailureYieldsNoIR ==
    /\ \A k \in Finished :
           GateFails(returned[k].types, returned[k].protocol) =>
               /\ returned[k].result = None
               /\ returned[k].error = "TypeError"
               /\ returned[k].nodes = BaseOf(k)
    /\ (pc # "idle" /\ GateFails(types, protocol)) =>
           /\ pc \in {"run", "gate", "raised"}
           /\ stack = <<>>
           /\ out = <<>>
           /\ cache = NoFunction
           /\ type_hints = NoFunction
           /\ hintCalls = NoHintCalls
           /\ Len(heap) = Base

\* a batch of two roots was refused although its first root alone is accepted
C1_Witness ==
    /\ pc = "raised"
    /\ error = "TypeError"
    /\ Len(types) = 2
    /\ GateFails(types, protocol)
    /\ DecoderAccepts(<<types[1]>>, protocol)

----------------------------------------------------------------------------
(* C2 *)

\* the fields of object-like class c whose declared type is c itself
SelfFields(c) ==
    LET plan == FieldPlan(c, _get_type_hints(c))
    IN  {i \in 1..Len(plan) : plan[i].hint = Type(c)}
SelfReferential(d) ==
    d.k = "type" /\ IsObjectLike(d.name) /\ SelfFields(d.name) # {}
\* finished call k translated its roots: the protocol is valid and the gate passed
Translated(k) ==
    ValidProtocol(returned[k].protocol)
    /\ DecoderAccepts(returned[k].types, returned[k].protocol)
\* the frames that are translating the fields of object-like class c
FieldFrames(c) ==
    {i \in 1..Len(stack) : stack[i].phase = "kids" /\ stack[i].t = c}

\* C2: a call on a record type with a field declared as the record type itself
\* returns without a recursion error, the recursion never re-enters the fields
\* of a class whose fields it is already translating, and in the node returned
\* for the record every self-typed field refers to that very node.
C2_SelfReferenceTerminates ==
    /\ \A k \in Finished :
           \A i \in 1..Len(returned[k].types) :
               LET d == returned[k].types[i]
               IN  (Translated(k) /\ SelfReferential(d)) =>
                       /\ Succeeded(k)
                       /\ Len(ResultOf(k)) = Len(returned[k].types)
                       /\ heap[ResultOf(k)[i]].cls = d.name
                       /\ \A j \in SelfFields(d.name) :
                              heap[ResultOf(k)[i]].fields[j].type = ResultOf(k)[i]
    /\ \A c \in ClassNames : IsObjectLike(c) => Cardinality(FieldFrames(c)) <= 1
    /\ (\A i \in 1..Len(types) : ~IsCyclic(types[i])) => error # "RecursionError"

\* the call on such a record has returned, and the recursion went through the
\* record's own field
C2_Witness ==
    /\ pc = "done"
    /\ Len(types) = 1
    /\ SelfReferential(types[1])
    /\ \E j \in SelfFields(types[1].name) : heap[out[1]].fields[j].type = out[1]

----------------------------------------------------------------------------
(* C3 *)

\* C3: a batch that passes the gate (and holds no Literal that sorted() cannot
\* order and no alias that holds itself) returns one node per descriptor, and the i-th node has the shape of
\* the node that type_info, called on the i-th descriptor alone with the same
\* protocol, returns.
C3_BatchMatchesSingleCalls ==
    /\ \A k \in Finished :
           (Translated(k) /\ Sortable(returned[k].types)) =>
               Succeeded(k) /\ Len(ResultOf(k)) = Len(returned[k].types)
    /\ \A k \in Finished \ {1} :
           (Translated(1) /\ Sortable(returned[1].types)) =>
               /\ Succeeded(k)
               /\ Len(ResultOf(k)) = 1
               /\ \A i \in 1..Len(returned[1].types) :
                      returned[1].types[i] = returned[k].types[1] =>
                          Shape(heap, ResultOf(1)[i], <<>>)
                              = Shape(heap, ResultOf(k)[1], <<>>)

\* the batch (S, D) was translated, D's node coming from the cache filled while
\* S was translated, and type_info(D) has returned as well
C3_Witness ==
    /\ Len(returned) = 2
    /\ returned[1].types = <<Type("S"), Type("D")>>
    /\ returned[2].types = <<Type("D")>>
    /\ Succeeded(1)
    /\ Succeeded(2)
    /\ ResultOf(1)[2] < returned[1].nodes
    /\ ResultOf(2)[1] > returned[1].nodes

----------------------------------------------------------------------------
(* C4 *)

\* C4: with a protocol that is none of None, "msgpack", "json" the call raises
\* the invalid-protocol error at once: the Decoder is never constructed, no
\* root is translated, no node allocated, nothing cached.
C4_InvalidProtocolRaisesFirst ==
    /\ (pc # "idle" /\ ~ValidProtocol(protocol)) =>
           /\ pc \in {"run", "raised"}
           /\ pc = "raised" => error = "ValueError"
           /\ stack = <<>>
           /\ out = <<>>
           /\ cache = NoFunction
           /\ type_hints = NoFunction
           /\ hintCalls = NoHintCalls
           /\ Len(heap) = Base
    /\ \A k \in Finished :
           ~ValidProtocol(returned[k].protocol) =>
               /\ returned[k].result = None
               /\ returned[k].error = "ValueError"
               /\ returned[k].nodes = BaseOf(k)

\* the invalid-protocol error was raised for a batch of roots that none of the
\* decoders is asked about, one the JSON decoder would refuse
C4_Witness ==
    /\ pc = "raised"
    /\ error = "ValueError"
    /\ ~ValidProtocol(protocol)
    /\ Len(types) = 2
    /\ ~DecoderAccepts(types, Some("json"))

----------------------------------------------------------------------------
(* C5 *)

Members(s) == {s[i] : i \in 1..Len(s)}

\* C5: a Literal of members sorted() can compare translates to a LiteralType whose values are the declared
\* members in strictly increasing order, so every declaration order of one set
\* of members yields the same node.
C5_LiteralOrderIndependent ==
    \A k \in Finished :
        \A i \in 1..Len(returned[k].types) :
            LET d == returned[k].types[i]
            IN  (Translated(k) /\ IsLiteral(d) /\ Orderable(d.args[1])) =>
                    /\ Succeeded(k)
                    /\ LET n == heap[ResultOf(k)[i]]
                       IN  /\ n.node = "LiteralType"
                           /\ Len(n.values) = Len(d.args[1])
                           /\ Members(n.values) = Members(d.args[1])
                           /\ \A a, b \in 1..Len(n.values) :
                                  a < b => PyLess(n.values[a], n.values[b])

\* a Literal declared out of order has been translated
C5_Witness ==
    /\ pc = "done"
    /\ Len(types) = 1
    /\ IsLiteral(types[1])
    /\ Len(types[1].args[1]) = 3
    /\ PyLess(types[1].args[1][3], types[1].args[1][1])
    /\ heap[out[1]].values # types[1].args[1]

----------------------------------------------------------------------------
(* C6 *)

\* p is the merge of dict a with the later dict b: dict values merged the same
\* way, sequence values concatenated, any other colliding value taken from b,
\* a key of one dict only kept with its value
RECURSIVE MergedAs(_, _, _)
MergedAs(a, b, p) ==
    /\ DOMAIN p = DOMAIN a \cup DOMAIN b
    /\ \A key \in DOMAIN a \cup DOMAIN b :
           IF key \in DOMAIN a /\ key \in DOMAIN b
           THEN IF a[key].t = "dict" /\ b[key].t = "dict"
                THEN p[key].t = "dict" /\ MergedAs(a[key].d, b[key].d, p[key].d)
                ELSE IF IsSeq(a[key]) /\ IsSeq(b[key])
                     THEN p[key] = JList(a[key].items \o b[key].items)
                     ELSE p[key] = b[key]
           ELSE IF key \in DOMAIN a THEN p[key] = a[key] ELSE p[key] = b[key]

\* a type annotated with two Meta that each give an extra-schema dict and no
\* title, description or examples
TwoSchemas(d) ==
    /\ d.k = "Annotated"
    /\ d.base.k = "type"
    /\ Len(d.metadata) = 2
    /\ \A i \in 1..2 :
           /\ d.metadata[i].cls = "Meta"
           /\ d.metadata[i].extra_json_schema # None
           /\ \A a \in DocSet : d.metadata[i][a] = None
SchemaOf(d, i) == _to_builtins(d.metadata[i].extra_json_schema[1])

\* C6: for a type annotated with two Meta that each supply an extra-schema
\* dict, the extra-schema payload of the resulting node is the merge of the
\* first dict with the second (the dicts taken as builtins, a tuple being a
\* list): colliding dict values merged recursively, colliding sequences
\* concatenated earlier first, any other colliding key from the later dict,
\* other keys unchanged; with both dicts empty the node is not wrapped.
C6_ExtraSchemaMerge ==
    \A k \in Finished :
        \A i \in 1..Len(returned[k].types) :
            LET d == returned[k].types[i]
            IN  (Translated(k) /\ TwoSchemas(d)) =>
                    /\ Succeeded(k)
                    /\ LET n == heap[ResultOf(k)[i]]
                       IN  IF SchemaOf(d, 1) = EmptyDict /\ SchemaOf(d, 2) = EmptyDict
                           THEN n.node # "Metadata"
                           ELSE /\ n.node = "Metadata"
                                /\ n.extra_json_schema # None
                                /\ MergedAs(SchemaOf(d, 1), SchemaOf(d, 2),
                                            n.extra_json_schema[1])

\* both dicts have key a with dict values that share a key, and the payload
\* holds their merge, which is neither of the two values
C6_Witness ==
    /\ pc = "done"
    /\ Len(types) = 1
    /\ TwoSchemas(types[1])
    /\ "a" \in DOMAIN SchemaOf(types[1], 1) \cap DOMAIN SchemaOf(types[1], 2)
    /\ SchemaOf(types[1], 1).a.t = "dict"
    /\ SchemaOf(types[1], 2).a.t = "dict"
    /\ DOMAIN SchemaOf(types[1], 1).a.d \cap DOMAIN SchemaOf(types[1], 2).a.d # {}
    /\ heap[out[1]].node = "Metadata"
    /\ heap[out[1]].extra_json_schema[1].a # SchemaOf(types[1], 1).a
    /\ heap[out[1]].extra_json_schema[1].a # SchemaOf(types[1], 2).a

----------------------------------------------------------------------------
(* C7 *)

IsUnion(d) == (d.k = "alias" /\ d.origin = "Union") \/ d.k = "UnionType"
\* the union is declared with a member that is the none type
DeclaresNone(d) ==
    \E j \in 1..Len(d.args[1]) :
        _origin_args_metadata(d.args[1][j]).t \in {"None", "NoneType"}
\* node n without its Metadata wrapper
Bare(h, n) == IF h[n].node = "Metadata" THEN h[h[n].type] ELSE h[n]
\* node n is the translation of member descriptor a (a scalar or a class)
MemberMatches(h, n, a) ==
    LET o == _origin_args_metadata(a)
    IN  IF IsObjectLike(o.t) THEN Bare(h, n).cls = o.t
        ELSE Bare(h, n) = ArmNodes(o.t, o.args, MergeMeta(o.metadata).constrs, <<>>, 0)[1]

\* C7: a union translates to a UnionType whose members are the translations of
\* the declared members in declaration order, and includes_none is true exactly
\* when the union is declared with a none-type member.
C7_UnionMembersAndIncludesNone ==
    \A k \in Finished :
        \A i \in 1..Len(returned[k].types) :
            LET d == returned[k].types[i]
            IN  (Translated(k) /\ IsUnion(d)) =>
                    /\ Succeeded(k)
                    /\ LET n == ResultOf(k)[i]
                       IN  /\ heap[n].node = "UnionType"
                           /\ Len(heap[n].types) = Len(d.args[1])
                           /\ \A j \in 1..Len(d.args[1]) :
                                  MemberMatches(heap, heap[n].types[j], d.args[1][j])
                           /\ includes_none(heap, n) <=> DeclaresNone(d)

----------------------------------------------------------------------------
(* C8 *)

NumericAttrs == {"ge", "gt", "le", "lt", "multiple_of"}
\* the value the last annotation that sets attribute a gives it
RECURSIVE LastSet(_, _)
LastSet(ms, a) ==
    IF ms = <<>> THEN None
    ELSE IF ms[Len(ms)].cls = "Meta" /\ ms[Len(ms)][a] # None
         THEN ms[Len(ms)][a]
         ELSE LastSet(SubSeq(ms, 1, Len(ms) - 1), a)
\* descriptor d carries a numeric bound
NumericBound(d) ==
    \E a \in NumericAttrs : LastSet(_origin_args_metadata(d).metadata, a) # None

\* C8: numeric bounds annotated on an int (or float) give a node whose ge, gt,
\* le, lt, multiple_of are the annotated values; annotated on a type of another
\* arm they are dropped: the call succeeds and the node has no such fields.
C8_NumericBounds ==
    \A k \in Finished :
        \A i \in 1..Len(returned[k].types) :
            LET d == returned[k].types[i]
                o == _origin_args_metadata(d)
            IN  (Translated(k) /\ NumericBound(d)) =>
                    /\ Succeeded(k)
                    /\ LET n == Bare(heap, ResultOf(k)[i])
                       IN  IF o.t \in {"int", "float"}
                           THEN /\ n.node = IF o.t = "int" THEN "IntType" ELSE "FloatType"
                                /\ \A a \in NumericAttrs : n[a] = LastSet(o.metadata, a)
                           ELSE /\ DOMAIN n \cap NumericAttrs = {}
                                /\ o.t = "str" =>
                                       n = [node |-> "StrType",
                                            min_length |-> LastSet(o.metadata, "min_length"),
                                            max_length |-> LastSet(o.metadata, "max_length"),
                                            pattern |-> LastSet(o.metadata, "pattern")]

\* a str annotated with ge has been translated to a StrType
C8_Witness ==
    /\ pc = "done"
    /\ Len(types) = 1
    /\ _origin_args_metadata(types[1]).t = "str"
    /\ LastSet(_origin_args_metadata(types[1]).metadata, "ge") # None
    /\ heap[out[1]].node = "StrType"

----------------------------------------------------------------------------
(* C9 *)

\* the plain default class c declares for field name, if any
DeclaredDefault(c, name) ==
    LET cls == ClassOf(c) IN
    CASE _is_struct(c) ->
           LET i == CHOOSE j \in 1..Len(cls.__struct_fields__) :
                        cls.__struct_fields__[j] = name
               npos == Len(cls.__struct_fields__) - Len(cls.__struct_defaults__)
           IN  IF i <= npos \/ cls.__struct_defaults__[i - npos] = _nodefault
                  \/ cls.__struct_defaults__[i - npos].py = "Factory"
               THEN None ELSE Some(cls.__struct_defaults__[i - npos])
      [] _is_dataclass(c) ->
           LET f == CHOOSE g \in {cls.fields[j] : j \in 1..Len(cls.fields)} :
                        g.name = name
           IN  IF f.default = MISSING THEN None ELSE Some(f.default)
      [] _is_namedtuple(c) ->
           IF name \in DOMAIN cls._field_defaults
           THEN Some(cls._field_defaults[name]) ELSE None
      [] OTHER -> None

\* the default factory class c declares for field name, if any
DeclaredFactory(c, name) ==
    LET cls == ClassOf(c) IN
    CASE _is_struct(c) ->
           LET i == CHOOSE j \in 1..Len(cls.__struct_fields__) :
                        cls.__struct_fields__[j] = name
               npos == Len(cls.__struct_fields__) - Len(cls.__struct_defaults__)
           IN  IF i > npos /\ cls.__struct_defaults__[i - npos] # _nodefault
                  /\ cls.__struct_defaults__[i - npos].py = "Factory"
               THEN Some(cls.__struct_defaults__[i - npos].factory) ELSE None
      [] _is_dataclass(c) ->
           LET f == CHOOSE g \in {cls.fields[j] : j \in 1..Len(cls.fields)} :
                        g.name = name
           IN  IF f.default_factory = MISSING THEN None ELSE Some(f.default_factory)
      [] OTHER -> None

\* the keys typed dict c requires
RequiredKeys(c) ==
    IF ClassOf(c).has_required_keys THEN ClassOf(c).__required_keys__
    ELSE IF ClassOf(c).__total__ THEN DOMAIN _get_type_hints(c) ELSE {}

\* the object nodes whose field list has been assigned
Assigned == {n \in 1..Len(heap) : heap[n].node \in ObjectNodes /\ writes[n] > 0}

\* default and default_factory of Field f are what class c declares
DefaultsAsDeclared(c, f) ==
    /\ DeclaredFactory(c, f.name) # None =>
           f.default_factory = DeclaredFactory(c, f.name)[1] /\ f.default = UNSET
    /\ (DeclaredDefault(c, f.name) # None /\ DeclaredFactory(c, f.name) = None) =>
           f.default = DeclaredDefault(c, f.name)[1] /\ f.default_factory = UNSET
    /\ f.required => (f.default = UNSET /\ f.default_factory = UNSET)
    /\ ~(f.default # UNSET /\ f.default_factory # UNSET)
Undeclared(c, f) ==
    DeclaredDefault(c, f.name) = None /\ DeclaredFactory(c, f.name) = None

\* C9 as stated: for every Field of any of the four object-like kinds, required
\* is true exactly when the class declares neither a default nor a default
\* factory for it; a declared factory is in default_factory with default
\* Unset; a declared plain default is in default with default_factory Unset; a
\* required field has both Unset; the two are never both set.
C9_RequiredIffNoDefault ==
    \A n \in Assigned :
        \A i \in 1..Len(heap[n].fields) :
            LET f == heap[n].fields[i]
            IN  /\ f.required <=> Undeclared(heap[n].cls, f)
                /\ DefaultsAsDeclared(heap[n].cls, f)

\* C9 amended: as stated for the Fields of a struct, dataclass or named tuple;
\* the Field of a typed dict key is required exactly when the key is one of the
\* typed dict's required keys, and has default and default_factory Unset
\* whether it is required or not.
C9_RequiredPerKind ==
    \A n \in Assigned :
        \A i \in 1..Len(heap[n].fields) :
            LET f == heap[n].fields[i]
                c == heap[n].cls
            IN  /\ IF _is_typeddict(c)
                   THEN /\ f.required <=> f.name \in RequiredKeys(c)
                        /\ f.default = UNSET
                        /\ f.default_factory = UNSET
                   ELSE f.required <=> Undeclared(c, f)
                /\ DefaultsAsDeclared(c, f)

\* a struct with a required field, a field with a plain default and a field
\* with a default factory has its fields, and so has a typed dict with a key
\* that is not required
C9_Witness ==
    /\ \E n \in Assigned :
           /\ _is_struct(heap[n].cls)
           /\ \E i, j, l \in 1..Len(heap[n].fields) :
                  /\ heap[n].fields[i].required
                  /\ DeclaredDefault(heap[n].cls, heap[n].fields[j].name) # None
                  /\ heap[n].fields[l].default_factory # UNSET
    /\ \E n \in Assigned :
           /\ _is_typeddict(heap[n].cls)
           /\ \E i \in 1..Len(heap[n].fields) : ~heap[n].fields[i].required

----------------------------------------------------------------------------
(* C10 *)

\* the nodes the current run has created for class c
RunNodes(c) ==
    {n \in (Base + 1)..Len(heap) : heap[n].node \in ObjectNodes /\ heap[n].cls = c}
\* the frames of the stack that are in the arm of class c past its cache test
ArmFrames(c) ==
    {i \in 1..Len(stack) : stack[i].t = c /\ stack[i].phase \in {"kids", "wrap"}}

\* what holds of object-like class c in every state of a run
OneNodePerClass(c) ==
    /\ hintCalls[c] <= 1
    /\ Cardinality(RunNodes(c)) <= 1
    /\ IF c \in DOMAIN cache
       THEN /\ RunNodes(c) = {cache[c]}
            /\ writes[cache[c]] <= 1
            /\ hintCalls[c] = 1
            /\ pc = "done" =>
                   /\ writes[cache[c]] = 1
                   /\ Len(heap[cache[c]].fields) = Len(FieldPlan(c, _get_type_hints(c)))
       ELSE RunNodes(c) = {} /\ hintCalls[c] = 0
    /\ \A i \in ArmFrames(c) :
           /\ c \in DOMAIN cache
           /\ stack[i].out = cache[c]
           /\ stack[i].phase = "kids" =>
                  /\ heap[cache[c]].fields = <<>>
                  /\ writes[cache[c]] = 0

\* what holds of every step of a run
PlaceholderStep ==
    /\ \A c \in ClassNames : IsObjectLike(c) => OneNodePerClass(c)'
    /\ pc = "translate" =>
           /\ \A c \in DOMAIN cache : c \in DOMAIN cache' /\ cache'[c] = cache[c]
           /\ \A c \in DOMAIN cache' \ DOMAIN cache :
                  /\ cache'[c] = Len(heap) + 1
                  /\ heap'[cache'[c]].fields = <<>>
                  /\ Top.phase = "enter"
    /\ \A n \in 1..Len(heap) :
           heap'[n] # heap[n] =>
               /\ InFrame("kids")
               /\ Top.todo = <<>>
               /\ Len(Top.kids) = Len(Top.plan)
               /\ Top.out = n
               /\ writes[n] = 0
               /\ writes'[n] = 1
               /\ Len(heap'[n].fields) = Len(Top.plan)
               /\ \A j \in 1..Len(Top.plan) : heap'[n].fields[j].type = Top.kids[j]
    /\ (InFrame("enter") /\ Entered(Top).t \in DOMAIN cache) =>
           /\ heap' = heap
           /\ writes' = writes
           /\ hintCalls' = hintCalls
           /\ stack' = SetTop([Entered(Top) EXCEPT !.phase = "wrap",
                                                   !.out = cache[Entered(Top).t]])

\* C10: within one run, for every object-like class reached, a placeholder with
\* an empty field list is in the cache before any of the class's field types
\* is translated and stays empty while they are; every later reference to the
\* class in the run returns the cached node and translates nothing; the node's
\* field list is assigned once, when all its field types are translated; the
\* class's type hints are resolved at most once.
C10_PlaceholderThenSingleAssignment == [][PlaceholderStep]_vars

\* a batch of a struct and a dataclass the struct refers to has returned: the
\* struct's own field refers to the struct's node, the second root is the node
\* the struct's field reached
C10_Witness ==
    /\ pc = "done"
    /\ Len(types) = 2
    /\ types[1] = Type("S")
    /\ types[2] = Type("D")
    /\ out = <<cache["S"], cache["D"]>>
    /\ heap[out[1]].fields[1].type = out[1]
    /\ heap[heap[out[1]].fields[2].type].types[1] = out[2]
    /\ writes[out[1]] = 1
    /\ writes[out[2]] = 1
    /\ hintCalls["S"] = 1
    /\ hintCalls["D"] = 1

----------------------------------------------------------------------------
(* C11 *)

\* members all of one kind, str or int, and at least one
Homogeneous(s) ==
    /\ s # <<>>
    /\ \/ \A i \in 1..Len(s) : s[i].ty = "int"
       \/ \A i \in 1..Len(s) : s[i].ty = "str"

\* C11: every LiteralType node has a non-empty value tuple that is all-str or
\* all-int, and a call on a Literal whose members are of mixed or other kinds
\* returns no LiteralType node for it.
C11_LiteralHomogeneous ==
    /\ \A n \in 1..Len(heap) :
           heap[n].node = "LiteralType" => Homogeneous(heap[n].values)
    /\ \A k \in Finished :
           \A i \in 1..Len(returned[k].types) :
               LET d == returned[k].types[i]
               IN  (Translated(k) /\ IsLiteral(d) /\ ~Homogeneous(d.args[1])) =>
                       \/ ~Succeeded(k)
                       \/ Bare(heap, ResultOf(k)[i]).node # "LiteralType"

----------------------------------------------------------------------------
(* C12 *)

\* C12: a call on a shape that refers to itself through alias, collection,
\* tuple, dict or union arms only ends with a descriptive error of the
\* translator: it neither returns nodes nor runs into the interpreter's
\* recursion limit.
C12_CyclicShapeFailsDescriptively ==
    \A k \in Finished :
        (Translated(k) /\ \E i \in 1..Len(returned[k].types) :
                              IsCyclic(returned[k].types[i])) =>
            returned[k].error \notin {"", "RecursionError"}

----------------------------------------------------------------------------
(* C13 *)

\* the nodes node x refers to
Refs(x) ==
    CASE x.node \in {"ListType", "SetType", "FrozenSetType", "VarTupleType"} ->
           {x.item_type}
      [] x.node = "TupleType" -> {x.item_types[i] : i \in 1..Len(x.item_types)}
      [] x.node = "DictType" -> {x.key_type, x.value_type}
      [] x.node = "UnionType" -> {x.types[i] : i \in 1..Len(x.types)}
      [] x.node = "Metadata" -> {x.type}
      [] x.node \in ObjectNodes -> {x.fields[i].type : i \in 1..Len(x.fields)}
      [] OTHER -> {}
\* nodes n and m were created by the same call
SameCall(n, m) == \A k \in Finished : (n <= returned[k].nodes) <=> (m <= returned[k].nodes)

----------------------------------------------------------------------------
(* C14 *)

\* the title, description and examples that Meta m sets, as a dict
AttrsOf(m) == [key \in {a \in DocSet : m[a] # None} |-> m[key][1]]
\* the explicit extra-schema dict of Meta m, as builtins
ExplicitOf(m) ==
    IF m.extra_json_schema = None THEN EmptyDict
    ELSE _to_builtins(m.extra_json_schema[1])
\* the payload as the deep merge, in item order, of each item's attributes
\* and then its explicit dict
RECURSIVE DeepMerged(_, _)
DeepMerged(ms, acc) ==
    IF ms = <<>> THEN acc
    ELSE DeepMerged(Tail(ms),
             _merge_json(_merge_json(acc, AttrsOf(Head(ms))), ExplicitOf(Head(ms))))

\* the documentation payload of node n: the empty dict when there is none
PayloadOf(h, n) ==
    IF h[n].node = "Metadata" /\ h[n].extra_json_schema # None
    THEN h[n].extra_json_schema[1] ELSE EmptyDict

\* the Meta items of root descriptor d documenting it
Documents(d) ==
    \E i \in 1..Len(_origin_args_metadata(d).metadata) :
        LET m == _origin_args_metadata(d).metadata[i]
        IN  m.extra_json_schema # None \/ \E a \in DocSet : m[a] # None

\* C14: the documentation payload is the deep merge, in item order,
\* of each item's title/description/examples together with its explicit
\* extra-schema dict; on every collision dicts merge, sequences concatenate and
\* scalars are overwritten by the later item.
C14_DocPayloadDeepMerged ==
    \A k \in Finished :
        \A i \in 1..Len(returned[k].types) :
            LET d == returned[k].types[i]
            IN  (Translated(k) /\ Documents(d)) =>
                    /\ Succeeded(k)
                    /\ PayloadOf(heap, ResultOf(k)[i])
                           = DeepMerged(_origin_args_metadata(d).metadata, EmptyDict)

----------------------------------------------------------------------------
(* C15 *)

\* some Meta of ms gives the extra-schema payload a key
HasDoc(ms) ==
    \E i \in 1..Len(ms) :
        \/ \E a \in DocSet : ms[i][a] # None
        \/ ms[i].extra_json_schema # None /\ ms[i].extra_json_schema[1] # EmptyDict
\* some Meta of ms gives the free-form extra payload a key
HasExtra(ms) ==
    \E i \in 1..Len(ms) : ms[i].extra # None /\ ms[i].extra[1] # EmptyDict

\* the items of ms that give the free-form extra payload the key
Giving(ms, key) ==
    {i \in 1..Len(ms) : ms[i].extra # None /\ key \in DOMAIN ms[i].extra[1]}
\* e is the extra payload accumulated over ms: every key given, with the value
\* of the last item giving it
ExtraAsGiven(ms, e) ==
    /\ DOMAIN e = {key \in {"a", "b"} : Giving(ms, key) # {}}
    /\ \A key \in DOMAIN e :
           e[key] = ms[CHOOSE i \in Giving(ms, key) :
                          \A j \in Giving(ms, key) : j <= i].extra[1][key]

\* C15: the node translate returns for a type is a Metadata wrapper exactly when
\* the accumulated extra-schema payload or the accumulated extra payload is
\* non-empty; the wrapper holds each payload, None standing for an empty one
\* and never an empty dict; the node it wraps is never a Metadata node.
C15_MetadataWrapper ==
    /\ \A n \in 1..Len(heap) :
           heap[n].node = "Metadata" =>
               /\ heap[heap[n].type].node # "Metadata"
               /\ heap[n].extra_json_schema # None \/ heap[n].extra # None
               /\ heap[n].extra_json_schema # Some(EmptyDict)
               /\ heap[n].extra # Some(EmptyDict)
    /\ \A i \in 1..Len(stack) :
           stack[i].phase = "wrap" => heap[stack[i].out].node # "Metadata"
    /\ \A k \in Finished :
           \A i \in 1..Len(returned[k].types) :
               LET ms == _origin_args_metadata(returned[k].types[i]).metadata
               IN  Succeeded(k) =>
                       LET x == heap[ResultOf(k)[i]]
                       IN  /\ x.node = "Metadata" <=> (HasDoc(ms) \/ HasExtra(ms))
                           /\ x.node = "Metadata" =>
                                  /\ x.extra_json_schema # None <=> HasDoc(ms)
                                  /\ x.extra # None <=> HasExtra(ms)
                                  /\ x.extra # None => ExtraAsGiven(ms, x.extra[1])

\* a type annotated with a free-form extra payload only has been translated:
\* the wrapper holds it, and None for the extra-schema payload
C15_Witness ==
    /\ pc = "done"
    /\ Len(types) = 1
    /\ ~HasDoc(_origin_args_metadata(types[1]).metadata)
    /\ HasExtra(_origin_args_metadata(types[1]).metadata)
    /\ heap[out[1]].node = "Metadata"
    /\ heap[out[1]].extra_json_schema = None
    /\ heap[out[1]].extra # None

====
